---- MODULE Spec2Model ----
(***************************************************************************)
(* Shell completion of the container run/create flags: the memoized        *)
(* capability list, the restart-policy and signal lists, and the composite *)
(* completions of --ipc and --link.                                        *)
(*                                                                         *)
(* Go strings that the code takes apart or concatenates are modelled as    *)
(* sequences of one-character strings; a Go slice is a record with a nil   *)
(* flag and its elements, so that a nil slice and an empty one differ.     *)
(***************************************************************************)
EXTENDS Integers, Sequences, FiniteSets, TLC

VARIABLES pc, done, mu, result, listKnownCalls, calls, got,
          capPrev, capLast,
          sigCalls, sigEnums, sigPrev, sigLast,
          rpCalls, rpPrev, rpLast,
          last

onceVars == <<pc, done, mu, result, listKnownCalls, calls, got, capPrev, capLast>>
sigVars == <<sigCalls, sigEnums, sigPrev, sigLast>>
rpVars == <<rpCalls, rpPrev, rpLast>>
vars == <<onceVars, sigVars, rpVars, last>>

(* ---------------------------- bounds ----------------------------------- *)

\* number of goroutines calling completeLinuxCapabilityNames
NumCallers == 2
\* calls each goroutine makes
MaxCalls == 2
\* invocations of completeSignals / completeRestartPolicies
MaxStaticCalls == 2
\* longest name list the container lookup returns
MaxNames == 2

Callers == 1..NumCallers

(* ---------------------------- Go values -------------------------------- *)

NilSlice == [isnil |-> TRUE, elems |-> <<>>]

Slice(s) == [isnil |-> FALSE, elems |-> s]

\* cobra.ShellCompDirective bits
ShellCompDirectiveError == 1
ShellCompDirectiveNoSpace == 2
ShellCompDirectiveNoFileComp == 4
ShellCompDirectiveDefault == 0

HasBit(d, b) == (d \div b) % 2 = 1

Lower == <<"a","b","c","d","e","f","g","h","i","j","k","l","m",
           "n","o","p","q","r","s","t","u","v","w","x","y","z">>
Upper == <<"A","B","C","D","E","F","G","H","I","J","K","L","M",
           "N","O","P","Q","R","S","T","U","V","W","X","Y","Z">>

\* strings.ToUpper
ToUpper(s) ==
  [i \in 1..Len(s) |->
     IF \E k \in 1..Len(Lower) : Lower[k] = s[i]
     THEN Upper[CHOOSE k \in 1..Len(Lower) : Lower[k] = s[i]]
     ELSE s[i]]

\* strings.HasPrefix(s, prefix)
HasPrefix(s, prefix) ==
  /\ Len(prefix) <= Len(s)
  /\ SubSeq(s, 1, Len(prefix)) = prefix

\* completion.FromList(options...)(cmd, args, toComplete)
FromList(options) ==
  [names |-> options, directive |-> ShellCompDirectiveNoFileComp]

NoResult == [names |-> NilSlice, directive |-> ShellCompDirectiveDefault]

(* ------------------------ capability list ------------------------------ *)

allCaps == <<"A","L","L">>

chown == <<"c","h","o","w","n">>
net_admin == <<"n","e","t","_","a","d","m","i","n">>
sys_time == <<"s","y","s","_","t","i","m","e">>

\* the lists capability.ListKnown() can return
KnownCapLists == { <<>>, <<chown>>, <<chown, net_admin>>, <<chown, net_admin, sys_time>> }

\* the function handed to sync.OnceValue, for ListKnown() = caps
BuildCapabilities(caps) ==
  Slice(<<allCaps>> \o [i \in 1..Len(caps) |-> <<"C","A","P","_">> \o ToUpper(caps[i])])

\* completeLinuxCapabilityNames is entered
CapCall(c) ==
  /\ pc[c] = "idle"
  /\ calls[c] < MaxCalls
  /\ pc' = [pc EXCEPT ![c] = "fast"]
  /\ UNCHANGED <<done, mu, result, listKnownCalls, calls, got,
                 capPrev, capLast, sigVars, rpVars, last>>

\* Once.Do: the atomic load of done on the fast path
OnceFast(c) ==
  /\ pc[c] = "fast"
  /\ pc' = [pc EXCEPT ![c] = IF done = 1 THEN "ret" ELSE "lock"]
  /\ UNCHANGED <<done, mu, result, listKnownCalls, calls, got,
                 capPrev, capLast, sigVars, rpVars, last>>

\* Once.doSlow: o.m.Lock()
OnceLock(c) ==
  /\ pc[c] = "lock"
  /\ mu = 0
  /\ mu' = c
  /\ pc' = [pc EXCEPT ![c] = "slow"]
  /\ UNCHANGED <<done, result, listKnownCalls, calls, got,
                 capPrev, capLast, sigVars, rpVars, last>>

\* a doSlow that runs f without looking at done again
OnceSlowNoRecheck(c) ==
  /\ pc[c] = "slow"
  /\ pc' = [pc EXCEPT ![c] = "run"]
  /\ UNCHANGED <<done, mu, result, listKnownCalls, calls, got,
                 capPrev, capLast, sigVars, rpVars, last>>

\* Once.doSlow: the second look at done, under the mutex
OnceSlow(c) ==
  /\ pc[c] = "slow"
  /\ pc' = [pc EXCEPT ![c] = IF done = 0 THEN "run" ELSE "unlock"]
  /\ UNCHANGED <<done, mu, result, listKnownCalls, calls, got,
                 capPrev, capLast, sigVars, rpVars, last>>

\* the memoized function runs: capability.ListKnown() and the loop over it
OnceRun(c) ==
  /\ pc[c] = "run"
  /\ \E caps \in KnownCapLists : result' = BuildCapabilities(caps)
  /\ listKnownCalls' = listKnownCalls + 1
  /\ pc' = [pc EXCEPT ![c] = "store"]
  /\ UNCHANGED <<done, mu, calls, got,
                 capPrev, capLast, sigVars, rpVars, last>>

\* deferred o.done.Store(1)
OnceStore(c) ==
  /\ pc[c] = "store"
  /\ done' = 1
  /\ pc' = [pc EXCEPT ![c] = "unlock"]
  /\ UNCHANGED <<mu, result, listKnownCalls, calls, got,
                 capPrev, capLast, sigVars, rpVars, last>>

\* deferred o.m.Unlock()
OnceUnlock(c) ==
  /\ pc[c] = "unlock"
  /\ mu = c
  /\ mu' = 0
  /\ pc' = [pc EXCEPT ![c] = "ret"]
  /\ UNCHANGED <<done, result, listKnownCalls, calls, got,
                 capPrev, capLast, sigVars, rpVars, last>>

\* completeLinuxCapabilityNames returns FromList(allLinuxCapabilities()...)
CapReturn(c) ==
  /\ pc[c] = "ret"
  /\ got' = [got EXCEPT ![c] = FromList(result)]
  /\ calls' = [calls EXCEPT ![c] = @ + 1]
  /\ capPrev' = capLast
  /\ capLast' = FromList(result)
  /\ pc' = [pc EXCEPT ![c] = "idle"]
  /\ UNCHANGED <<done, mu, result, listKnownCalls,
                 sigVars, rpVars, last>>

\* a call made while no other call is in flight
CapCallSeq(c) ==
  /\ \A d \in Callers : pc[d] = "idle"
  /\ CapCall(c)

(* ---------------------- signals, restart policies ---------------------- *)

\* the keys of signal.SignalMap
SignalMap == {"HUP", "KILL", "TERM"}

\* a range loop that may end before it has seen every key
RangeOrdersPartial(m) ==
  UNION { { s \in [1..n -> m] : \A i, j \in 1..n : i # j => s[i] # s[j] }
          : n \in 0..Cardinality(m) }

\* the orders in which "for k := range m" can yield the keys of a Go map
RangeOrders(m) ==
  { s \in [1..Cardinality(m) -> m] :
      \A i, j \in 1..Cardinality(m) : i # j => s[i] # s[j] }

\* a completeSignals that keeps the list it built on the first call
CompleteSignalsMemo ==
  /\ sigCalls < MaxStaticCalls
  /\ IF sigCalls = 0
     THEN /\ \E order \in RangeOrders(SignalMap) :
               sigLast' = FromList(Slice(order))
          /\ sigEnums' = sigEnums + 1
     ELSE /\ sigLast' = sigLast
          /\ sigEnums' = sigEnums
  /\ sigPrev' = sigLast
  /\ sigCalls' = sigCalls + 1
  /\ UNCHANGED <<onceVars, rpVars, last>>

\* completeSignals: build signalNames from the map, return FromList of it
CompleteSignals ==
  /\ sigCalls < MaxStaticCalls
  /\ \E order \in RangeOrders(SignalMap) :
       sigLast' = FromList(Slice(order))
  /\ sigEnums' = sigEnums + 1
  /\ sigPrev' = sigLast
  /\ sigCalls' = sigCalls + 1
  /\ UNCHANGED <<onceVars, rpVars, last>>

\* the values of the four container.RestartPolicy* constants, in source order
restartPolicies ==
  <<"RestartPolicyDisabled", "RestartPolicyAlways",
    "RestartPolicyOnFailure", "RestartPolicyUnlessStopped">>

CompleteRestartPolicies ==
  /\ rpCalls < MaxStaticCalls
  /\ rpLast' = FromList(Slice(restartPolicies))
  /\ rpPrev' = rpLast
  /\ rpCalls' = rpCalls + 1
  /\ UNCHANGED <<onceVars, sigVars, last>>

(* --------------------------- ipc and link ------------------------------ *)

container == <<"c","o","n","t","a","i","n","e","r">>
colon == <<":">>
containerColon == container \o colon
host == <<"h","o","s","t">>
none == <<"n","o","n","e">>
private == <<"p","r","i","v","a","t","e">>
shareable == <<"s","h","a","r","e","a","b","l","e">>
web == <<"w","e","b">>
db == <<"d","b">>

Prefixes(s) == { SubSeq(s, 1, n) : n \in 0..Len(s) }

\* the partial texts the shell hands over
PartialTexts ==
  Prefixes(containerColon \o web) \cup Prefixes(host) \cup Prefixes(web)
    \cup { containerColon \o db, container \o <<"s">>, <<"c","x">>,
           <<"x">>, <<":">>, colon \o container, <<"C">> }

ContainerNameSet == {web, db}

SeqsUpTo(S, n) == UNION { [1..k -> S] : k \in 0..n }

\* what completion.ContainerNames(cli, true)(cmd, args, q) can return:
\* no names and the error directive when the API call fails, else the names
ContainerNames ==
  { [names |-> NilSlice, directive |-> ShellCompDirectiveError],
    [names |-> NilSlice, directive |-> ShellCompDirectiveNoFileComp] }
  \cup { [names |-> Slice(s), directive |-> ShellCompDirectiveNoFileComp]
         : s \in SeqsUpTo(ContainerNameSet, MaxNames) }

NoLookup == [names |-> NilSlice, directive |-> ShellCompDirectiveDefault]

\* containerNames: the names of the lookup, an empty list for nil
containerNames(lk) ==
  IF lk.names.isnil THEN Slice(<<>>) ELSE lk.names

\* a prefixWith that appends to the slice it has made with len(values)
prefixWithAppend(prefix, values) ==
  Slice([i \in 1..Len(values.elems) |-> <<>>]
        \o [i \in 1..Len(values.elems) |-> prefix \o values.elems[i]])

\* prefixWith: a new slice of len(values), element i is prefix + values[i]
prefixWith(prefix, values) ==
  Slice([i \in 1..Len(values.elems) |-> prefix \o values.elems[i]])

\* a postfixWith that appends to the slice it has made with len(values)
postfixWithAppend(postfix, values) ==
  Slice([i \in 1..Len(values.elems) |-> <<>>]
        \o [i \in 1..Len(values.elems) |-> values.elems[i] \o postfix])

\* postfixWith: a new slice of len(values), element i is values[i] + postfix
postfixWith(postfix, values) ==
  Slice([i \in 1..Len(values.elems) |-> values.elems[i] \o postfix])

\* the condition of the first if of completeIpc
IpcQualifierPrefix(toComplete) ==
  Len(toComplete) > 0 /\ HasPrefix(container, toComplete)

\* the condition of the second if of completeIpc
IpcQualified(toComplete) == HasPrefix(toComplete, containerColon)

IpcKeywords == <<containerColon, host, none, private, shareable>>

\* a completeIpc whose first branch also takes the empty text
completeIpcEmptyFirst(toComplete, lk) ==
  IF HasPrefix(container, toComplete)
  THEN [names |-> Slice(<<containerColon>>), directive |-> ShellCompDirectiveNoSpace,
        lookupCalled |-> FALSE, query |-> <<>>, branch |-> 1]
  ELSE IF IpcQualified(toComplete)
  THEN [names |-> prefixWith(containerColon, lk.names),
        directive |-> ShellCompDirectiveNoFileComp,
        lookupCalled |-> TRUE, query |-> toComplete, branch |-> 2]
  ELSE [names |-> Slice(IpcKeywords), directive |-> ShellCompDirectiveNoFileComp,
        lookupCalled |-> FALSE, query |-> <<>>, branch |-> 3]

\* a completeIpc that hands the lookup the text after "container:"
completeIpcStripped(toComplete, lk) ==
  IF IpcQualifierPrefix(toComplete)
  THEN [names |-> Slice(<<containerColon>>), directive |-> ShellCompDirectiveNoSpace,
        lookupCalled |-> FALSE, query |-> <<>>, branch |-> 1]
  ELSE IF IpcQualified(toComplete)
  THEN [names |-> prefixWith(containerColon, lk.names),
        directive |-> ShellCompDirectiveNoFileComp,
        lookupCalled |-> TRUE,
        query |-> SubSeq(toComplete, Len(containerColon) + 1, Len(toComplete)),
        branch |-> 2]
  ELSE [names |-> Slice(IpcKeywords), directive |-> ShellCompDirectiveNoFileComp,
        lookupCalled |-> FALSE, query |-> <<>>, branch |-> 3]

\* a completeIpc that tests for "container:" before the keyword prefix and
\* takes every text starting with "container" as qualified
completeIpcLoose(toComplete, lk) ==
  IF HasPrefix(toComplete, container)
  THEN [names |-> prefixWith(containerColon, lk.names),
        directive |-> ShellCompDirectiveNoFileComp,
        lookupCalled |-> TRUE, query |-> toComplete, branch |-> 2]
  ELSE IF IpcQualifierPrefix(toComplete)
  THEN [names |-> Slice(<<containerColon>>), directive |-> ShellCompDirectiveNoSpace,
        lookupCalled |-> FALSE, query |-> <<>>, branch |-> 1]
  ELSE [names |-> Slice(IpcKeywords), directive |-> ShellCompDirectiveNoFileComp,
        lookupCalled |-> FALSE, query |-> <<>>, branch |-> 3]

\* a completeIpc that passes on the directive of the lookup
completeIpcLookupDirective(toComplete, lk) ==
  IF IpcQualifierPrefix(toComplete)
  THEN [names |-> Slice(<<containerColon>>), directive |-> ShellCompDirectiveNoSpace,
        lookupCalled |-> FALSE, query |-> <<>>, branch |-> 1]
  ELSE IF IpcQualified(toComplete)
  THEN [names |-> prefixWith(containerColon, lk.names),
        directive |-> lk.directive,
        lookupCalled |-> TRUE, query |-> toComplete, branch |-> 2]
  ELSE [names |-> Slice(IpcKeywords), directive |-> ShellCompDirectiveNoFileComp,
        lookupCalled |-> FALSE, query |-> <<>>, branch |-> 3]

\* the function completeIpc returns, applied to toComplete; lk is what the
\* container lookup returns if it is called
completeIpc(toComplete, lk) ==
  IF IpcQualifierPrefix(toComplete)
  THEN [names |-> Slice(<<containerColon>>), directive |-> ShellCompDirectiveNoSpace,
        lookupCalled |-> FALSE, query |-> <<>>, branch |-> 1]
  ELSE IF IpcQualified(toComplete)
  THEN [names |-> prefixWith(containerColon, lk.names),
        directive |-> ShellCompDirectiveNoFileComp,
        lookupCalled |-> TRUE, query |-> toComplete, branch |-> 2]
  ELSE [names |-> Slice(IpcKeywords), directive |-> ShellCompDirectiveNoFileComp,
        lookupCalled |-> FALSE, query |-> <<>>, branch |-> 3]

\* a completeLink that sets no directive bit
completeLinkDefault(toComplete, lk) ==
  [names |-> postfixWith(colon, containerNames(lk)),
   directive |-> ShellCompDirectiveDefault,
   lookupCalled |-> TRUE, query |-> toComplete, branch |-> 0]

\* the function completeLink returns, applied to toComplete
completeLink(toComplete, lk) ==
  [names |-> postfixWith(colon, containerNames(lk)),
   directive |-> ShellCompDirectiveNoSpace,
   lookupCalled |-> TRUE, query |-> toComplete, branch |-> 0]

\* the shell asks for the completion of --ipc
CompleteIpc ==
  /\ \E t \in PartialTexts, lk \in ContainerNames :
       LET r == completeIpc(t, lk) IN
       last' = [fn |-> "ipc", toComplete |-> t,
                lookup |-> IF r.lookupCalled THEN lk ELSE NoLookup,
                names |-> r.names, directive |-> r.directive,
                lookupCalled |-> r.lookupCalled, query |-> r.query,
                branch |-> r.branch]
  /\ UNCHANGED <<onceVars, sigVars, rpVars>>

\* the shell asks for the completion of --link
CompleteLink ==
  /\ \E t \in PartialTexts, lk \in ContainerNames :
       LET r == completeLink(t, lk) IN
       last' = [fn |-> "link", toComplete |-> t,
                lookup |-> IF r.lookupCalled THEN lk ELSE NoLookup,
                names |-> r.names, directive |-> r.directive,
                lookupCalled |-> r.lookupCalled, query |-> r.query,
                branch |-> r.branch]
  /\ UNCHANGED <<onceVars, sigVars, rpVars>>

(* --------------------------- specifications ---------------------------- *)

Init ==
  /\ pc = [c \in Callers |-> "idle"]
  /\ done = 0
  /\ mu = 0
  /\ result = NilSlice
  /\ listKnownCalls = 0
  /\ calls = [c \in Callers |-> 0]
  /\ got = [c \in Callers |-> NoResult]
  /\ capPrev = NoResult
  /\ capLast = NoResult
  /\ sigCalls = 0
  /\ sigEnums = 0
  /\ sigPrev = NoResult
  /\ sigLast = NoResult
  /\ rpCalls = 0
  /\ rpPrev = NoResult
  /\ rpLast = NoResult
  /\ last = [fn |-> "none", toComplete |-> <<>>, lookup |-> NoLookup,
             names |-> NilSlice, directive |-> ShellCompDirectiveDefault,
             lookupCalled |-> FALSE, query |-> <<>>, branch |-> 0]

\* goroutines calling completeLinuxCapabilityNames concurrently
NextOnce ==
  \E c \in Callers :
    \/ CapCall(c)
    \/ OnceFast(c)
    \/ OnceLock(c)
    \/ OnceSlow(c)
    \/ OnceRun(c)
    \/ OnceStore(c)
    \/ OnceUnlock(c)
    \/ CapReturn(c)

SpecOnce == Init /\ [][NextOnce]_vars

\* the three static completions, invoked one after the other
NextStatic ==
  \/ \E c \in Callers :
       \/ CapCallSeq(c)
       \/ OnceFast(c)
       \/ OnceLock(c)
       \/ OnceSlow(c)
       \/ OnceRun(c)
       \/ OnceStore(c)
       \/ OnceUnlock(c)
       \/ CapReturn(c)
  \/ CompleteSignals
  \/ CompleteRestartPolicies

SpecStatic == Init /\ [][NextStatic]_vars

NextComposite == CompleteIpc \/ CompleteLink

SpecComposite == Init /\ [][NextComposite]_vars

(* ------------------------------ claims --------------------------------- *)

Elems(sl) == { sl.elems[i] : i \in 1..Len(sl.elems) }

IpcCall == last.fn = "ipc"
LinkCall == last.fn = "link"
LookupFailed ==
  /\ last.lookupCalled
  /\ last.lookup.names.isnil
  /\ last.lookup.directive = ShellCompDirectiveError

\* C1: however the concurrent first calls of the capability completion
\* interleave, the function handed to sync.OnceValue runs at most once, it
\* has run exactly once when a caller has its result, every caller gets the
\* one memoized list, and no later call runs it again.
C1_CapabilitiesComputedOnce ==
  /\ listKnownCalls <= 1
  /\ \A c \in Callers :
       calls[c] > 0 =>
         /\ listKnownCalls = 1
         /\ got[c].names = result
         /\ ~got[c].names.isnil
         /\ got[c].names.elems[1] = allCaps
  /\ \A c, d \in Callers :
       (calls[c] > 0 /\ calls[d] > 0) => got[c] = got[d]

\* one caller has its second result while another, which entered before the
\* list was stored, holds the mutex of the slow path
C1_ConcurrentFirstCalls ==
  \E c, d \in Callers :
    /\ c # d
    /\ calls[c] >= 2
    /\ calls[d] = 0
    /\ pc[d] = "slow"
    /\ listKnownCalls = 1

\* C2 as stated: the signal names are enumerated at most once in a process.
C2_SignalsEnumeratedAtMostOnce == sigEnums <= 1

\* C2 amended: the signal list is not memoized; every invocation of
\* completeSignals runs the loop over signal.SignalMap again, so there are as
\* many enumerations as invocations, and each invocation returns every key
\* of the map once.
C2_SignalsEnumeratedPerCall ==
  /\ sigEnums = sigCalls
  /\ sigCalls > 0 =>
       /\ Elems(sigLast.names) = SignalMap
       /\ Len(sigLast.names.elems) = Cardinality(SignalMap)

C2_SecondSignalCall == sigCalls >= 2 /\ sigEnums >= 2

\* C3 as stated: two invocations of the capability, signal and
\* restart-policy completions return equal lists in the same order.
C3_StaticListsSameOrder ==
  /\ capPrev # NoResult => capLast = capPrev
  /\ sigCalls >= 2 => sigLast = sigPrev
  /\ rpCalls >= 2 => rpLast = rpPrev

\* C3 amended: two invocations of the capability completion, and of the
\* restart-policy completion, return equal lists in the same order; two
\* invocations of the signal completion return the same names, each once,
\* in an order that may differ from one invocation to the next.
C3_StaticListsSameNames ==
  /\ capPrev # NoResult => capLast = capPrev
  /\ rpCalls >= 2 => (rpLast = rpPrev /\ rpLast.names.elems = restartPolicies)
  /\ sigCalls >= 2 =>
       /\ Elems(sigLast.names) = Elems(sigPrev.names)
       /\ Len(sigLast.names.elems) = Len(sigPrev.names.elems)
       /\ sigLast.directive = sigPrev.directive

C3_TwoCallsEachSignalsReordered ==
  /\ capPrev # NoResult
  /\ rpCalls >= 2
  /\ sigCalls >= 2
  /\ sigLast # sigPrev

\* C4 as stated: for the empty text the ipc completion returns a list with
\* "container:" in it and a directive with no-space-after set.
C4_EmptyTextNoSpace ==
  (IpcCall /\ last.toComplete = <<>>) =>
    /\ containerColon \in Elems(last.names)
    /\ HasBit(last.directive, ShellCompDirectiveNoSpace)

\* C4 amended: for the empty text the ipc completion returns the keyword list
\* "container:", host, none, private, shareable, with the directive
\* no-file-completion and without no-space-after, and calls no lookup.
C4_EmptyTextKeywords ==
  (IpcCall /\ last.toComplete = <<>>) =>
    /\ last.names = Slice(IpcKeywords)
    /\ containerColon \in Elems(last.names)
    /\ last.directive = ShellCompDirectiveNoFileComp
    /\ ~HasBit(last.directive, ShellCompDirectiveNoSpace)
    /\ ~last.lookupCalled

C4_IpcEmptyText == IpcCall /\ last.toComplete = <<>> /\ last.branch = 3

\* C5 as stated: for a text starting with "container:" the ipc completion
\* hands the lookup the text after that prefix.
C5_LookupGetsRemainder ==
  (IpcCall /\ HasPrefix(last.toComplete, containerColon)) =>
    /\ last.lookupCalled
    /\ last.query = SubSeq(last.toComplete, Len(containerColon) + 1,
                           Len(last.toComplete))

\* C5 amended: for a text starting with "container:" the ipc completion
\* hands the lookup the whole text, prefix included; for "container:" the
\* lookup gets "container:".
C5_LookupGetsFullText ==
  (IpcCall /\ HasPrefix(last.toComplete, containerColon)) =>
    /\ last.lookupCalled
    /\ last.query = last.toComplete
    /\ HasPrefix(last.query, containerColon)

C5_IpcQualifiedText ==
  /\ IpcCall
  /\ last.toComplete = containerColon \o web
  /\ last.lookupCalled

\* C6: for a text starting with "container:" and the names L of the lookup,
\* the ipc completion returns "container:"+n for each n of L, in the order
\* and number of L, with the directive no-file-completion; web, db gives
\* container:web, container:db.
C6_IpcPrefixesEveryName ==
  (IpcCall /\ HasPrefix(last.toComplete, containerColon)) =>
    /\ Len(last.names.elems) = Len(last.lookup.names.elems)
    /\ \A i \in 1..Len(last.lookup.names.elems) :
         /\ HasPrefix(last.names.elems[i], containerColon)
         /\ SubSeq(last.names.elems[i], Len(containerColon) + 1,
                   Len(last.names.elems[i])) = last.lookup.names.elems[i]
    /\ last.directive = ShellCompDirectiveNoFileComp
    /\ last.lookup.names.elems = <<web, db>> =>
         last.names.elems =
           << <<"c","o","n","t","a","i","n","e","r",":","w","e","b">>,
              <<"c","o","n","t","a","i","n","e","r",":","d","b">> >>

\* the lookup returned the same name twice
C6_IpcDuplicateNames ==
  /\ IpcCall
  /\ last.lookup.names.elems = <<web, web>>
  /\ last.names.elems = <<containerColon \o web, containerColon \o web>>

\* C7: the link completion hands the lookup the whole text and returns each
\* name of the lookup, in order, with ":" appended, and a directive with
\* no-space-after set; web for "w" gives web:.
C7_LinkAppendsColon ==
  LinkCall =>
    /\ last.lookupCalled
    /\ last.query = last.toComplete
    /\ Len(last.names.elems) = Len(last.lookup.names.elems)
    /\ \A i \in 1..Len(last.lookup.names.elems) :
         /\ Len(last.names.elems[i]) = Len(last.lookup.names.elems[i]) + 1
         /\ HasPrefix(last.names.elems[i], last.lookup.names.elems[i])
         /\ last.names.elems[i][Len(last.names.elems[i])] = ":"
    /\ HasBit(last.directive, ShellCompDirectiveNoSpace)
    /\ last.lookup.names.elems = <<web>> =>
         last.names.elems = << <<"w","e","b",":">> >>

C7_LinkPartialW ==
  /\ LinkCall
  /\ last.toComplete = <<"w">>
  /\ last.lookup.names.elems = <<web>>
  /\ last.names.elems = << <<"w","e","b",":">> >>

\* C8: when the lookup fails, the ipc completion of a "container:" text and
\* the link completion return an empty list that is not nil, with the
\* directive of the branch (no-file-completion for ipc, no-space-after for
\* link); no returned directive has the error bit.
C8_LookupFailureGivesEmptyList ==
  /\ (IpcCall /\ LookupFailed) =>
       /\ last.names = Slice(<<>>)
       /\ last.directive = ShellCompDirectiveNoFileComp
  /\ (LinkCall /\ LookupFailed) =>
       /\ last.names = Slice(<<>>)
       /\ last.directive = ShellCompDirectiveNoSpace
  /\ ~HasBit(last.directive, ShellCompDirectiveError)

C8_LinkLookupFailed ==
  /\ LinkCall
  /\ LookupFailed
  /\ last.names = Slice(<<>>)

\* C9 as stated: every result of the ipc and link completions has the
\* no-file-completion bit set.
C9_AlwaysNoFileComp ==
  (IpcCall \/ LinkCall) =>
    HasBit(last.directive, ShellCompDirectiveNoFileComp)

\* C9 amended: every result of the ipc and link completions has exactly one
\* of the two bits set: no-file-completion alone on the lookup branch and the
\* keyword branch of ipc, no-space-after alone, without no-file-completion,
\* on the "container" prefix branch of ipc and for link.
C9_OneDirectiveBit ==
  /\ (IpcCall /\ last.branch \in {2, 3}) =>
       last.directive = ShellCompDirectiveNoFileComp
  /\ (IpcCall /\ last.branch = 1) =>
       /\ last.directive = ShellCompDirectiveNoSpace
       /\ ~HasBit(last.directive, ShellCompDirectiveNoFileComp)
  /\ LinkCall =>
       /\ last.directive = ShellCompDirectiveNoSpace
       /\ ~HasBit(last.directive, ShellCompDirectiveNoFileComp)

\* link with a lookup that found no names
C9_LinkEmptyLookup ==
  /\ LinkCall
  /\ last.lookup.directive = ShellCompDirectiveNoFileComp
  /\ Len(last.lookup.names.elems) = 0
  /\ last.directive = ShellCompDirectiveNoSpace

\* C10: for a non-empty prefix of "container", the word itself included, the
\* ipc completion returns just "container:" with no-space-after, calls no
\* lookup and does not return the keyword list; no text meets the conditions
\* of two branches.
C10_QualifierPrefixBranch ==
  /\ (IpcCall /\ last.toComplete # <<>> /\ HasPrefix(container, last.toComplete)) =>
       /\ last.names = Slice(<<containerColon>>)
       /\ HasBit(last.directive, ShellCompDirectiveNoSpace)
       /\ ~last.lookupCalled
       /\ last.names.elems # IpcKeywords
       /\ last.branch = 1
  /\ IpcCall =>
       /\ ~(IpcQualifierPrefix(last.toComplete) /\ IpcQualified(last.toComplete))
       /\ last.branch = 1 <=> IpcQualifierPrefix(last.toComplete)
       /\ last.branch = 2 <=> IpcQualified(last.toComplete)
       /\ last.branch = 3 <=>
            ~(IpcQualifierPrefix(last.toComplete) \/ IpcQualified(last.toComplete))

C10_IpcWholeWord ==
  /\ IpcCall
  /\ last.toComplete = container
  /\ last.names = Slice(<<containerColon>>)

====
